---- MODULE Spec2Model ----
(***************************************************************************)
(* Model of the conversation session orchestrator of web-app-backend:      *)
(* the /ws handler of src/main.py (websocket_endpoint), the Redis          *)
(* conversation store of src/utils/redis_client.py, and the outcomes of    *)
(* the model (src/utils/ai_client.py) and speech-to-text                   *)
(* (src/utils/stt_client.py) collaborators as the handler sees them, and   *)
(* the GET /health and POST /upload endpoints of src/main.py.              *)
(*                                                                         *)
(* The handler is one asyncio coroutine per connection.  Its only await    *)
(* points are websocket.receive_json and websocket.send_json; every store, *)
(* transcription and model call is a synchronous call, so the code between *)
(* two awaits runs without interleaving and is one action here.            *)
(*                                                                         *)
(* Texts are sequences of tokens, so that "contains a substring" and       *)
(* strip() are computed rather than assumed.  Python's None is NoneVal.    *)
(***************************************************************************)
EXTENDS Integers, Sequences, FiniteSets, TLC

\* ------------------------------------------------------------------ bounds
\* Inbound frames the clients send in total, over all connections.
MaxFrames == 2

\* Connections (one handler task each) and the session-id header values.
Conns == {"c1", "c2"}
Sessions == {"s1", "s2"}

\* ------------------------------------------------------------------ values
NoneVal == <<"None">>

\* The two literal markers the model may embed in generated text.
EndToken == "END_OF_CONVERSATION"
EmergencyToken == "EMERGENCY"
SentinelTokens == {EndToken, EmergencyToken}

\* Generated texts the model backend may return.
GeneratedTexts ==
    { <<"ok">>,
      <<"help", EmergencyToken>>,
      <<EndToken, "bye", EndToken>> }

\* Values of the content / audio fields of an inbound frame:
\* absent (None), empty, whitespace only, non-blank.
ContentValues == { NoneVal, <<>>, <<" ">>, <<"hi">> }
AudioValues == { NoneVal, <<>>, <<" ">>, <<"b64">> }

\* Transcription results of the speech-to-text backend.
Transcripts == { <<"spoken">> }
Confidences == { 9 }

Contains(text, tok) == \E i \in 1..Len(text) : text[i] = tok

ContainsSentinel(text) == \E t \in SentinelTokens : Contains(text, t)

\* str.strip(): drop leading and trailing whitespace.
RECURSIVE LStrip(_)
LStrip(s) == IF s # <<>> /\ Head(s) = " " THEN LStrip(Tail(s)) ELSE s

RECURSIVE RStrip(_)
RStrip(s) ==
    IF s # <<>> /\ s[Len(s)] = " " THEN RStrip(SubSeq(s, 1, Len(s) - 1)) ELSE s

Strip(s) == RStrip(LStrip(s))

\* data.get(k) is not None and data.get(k).strip()   (main.py 156-159)
NonBlank(v) == v # NoneVal /\ Strip(v) # <<>>

\* What a frame is, by the non-blankness of its two fields.
FrameKind(content, audio) ==
    IF NonBlank(content) /\ ~NonBlank(audio) THEN "text"
    ELSE IF NonBlank(audio) /\ ~NonBlank(content) THEN "audio"
    ELSE IF NonBlank(content) /\ NonBlank(audio) THEN "both"
    ELSE "neither"

\* The branch conditions of the if / elif chain of main.py 162, 170, 259.
IsTextBranch_lax(has_content, has_audio) == has_content
IsTextBranch(has_content, has_audio) == has_content /\ ~has_audio

IsAudioBranch_lax(has_content, has_audio) == has_audio
IsAudioBranch(has_content, has_audio) == has_audio /\ ~has_content

\* class MessageSender(Enum)
MessageSender == [USER |-> "user", IA |-> "ai", UPLOAD |-> "upload"]

\* MessageSender.<name> raises AttributeError for a name that is no member.
HasMember(name) == name \in DOMAIN MessageSender

\* ------------------------------------------------------------------ state
VARIABLES
    peers,          \* the connections some client opens
    ai_client,      \* "none" | "nomodels" | "ok": None, no model loaded, usable
    redis_client,   \* TRUE iff the module-level redis_client is not None
    stt_client,     \* TRUE iff the module-level stt_client is not None
    db_client,      \* TRUE iff the module-level db_client is not None
    health,         \* the last answer of GET /health
    upload,         \* the last answer of POST /upload
    connected,      \* RedisClient.connected
    store,          \* Redis lists chat:<session>, index 1 is the list head
    clock,          \* source of message timestamps
    pc,             \* per connection: position of the handler coroutine
    sid,            \* per connection: session_id
    local,          \* per connection: locals alive across an await
    outbox,         \* per connection: frames delivered to the client
    closeReason,    \* per connection: why the handler ended
    reports,        \* per connection: Report records persisted for its session
    appended,       \* history: per session, the objects of the save_message
                    \* calls that returned True, in call order
    storeFailed,    \* history: some store call failed
    kinds,          \* history: per connection, kinds of the frames received
    turns,          \* history: per connection, results of the model turns
    modelCalls,     \* history: per connection, number of predict calls
    reportEntered,  \* history: per connection, entries of the finalization path
    finalRead       \* history: per connection, what the disconnect handler read

vars == << peers, ai_client, redis_client, stt_client, db_client, connected, store, clock, pc,
           sid, local, outbox, closeReason, reports, health, upload, appended, storeFailed,
           kinds, turns, modelCalls, reportEntered, finalRead >>

config == << peers, ai_client, redis_client, stt_client, db_client >>

NoLocal == [frame |-> NoneVal, user_message |-> NoneVal]

NotRead == [done |-> FALSE, conversation |-> <<>>]

\* No GET /health has been answered yet.
NoHealth == [requested |-> FALSE, returned |-> FALSE]

\* No POST /upload has been answered yet.
NoUpload == [requested |-> FALSE]

\* db_client is read by the HTTP endpoints only; the websocket handler never
\* touches it (its one use there, main.py 325, is commented out).
Init ==
    /\ peers = {"c1"}
    /\ ai_client \in {"none", "nomodels", "ok"}
    /\ redis_client \in BOOLEAN
    /\ stt_client \in BOOLEAN
    /\ db_client = FALSE
    /\ health = NoHealth
    /\ upload = NoUpload
    /\ connected = redis_client
    /\ store = [s \in Sessions |-> <<>>]
    /\ clock = 0
    /\ pc = [c \in Conns |-> "new"]
    /\ sid = [c \in Conns |-> NoneVal]
    /\ local = [c \in Conns |-> NoLocal]
    /\ outbox = [c \in Conns |-> <<>>]
    /\ closeReason = [c \in Conns |-> "none"]
    /\ reports = [c \in Conns |-> 0]
    /\ appended = [s \in Sessions |-> <<>>]
    /\ storeFailed = FALSE
    /\ kinds = [c \in Conns |-> <<>>]
    /\ turns = [c \in Conns |-> <<>>]
    /\ modelCalls = [c \in Conns |-> 0]
    /\ reportEntered = [c \in Conns |-> 0]
    /\ finalRead = [c \in Conns |-> NotRead]


\* ------------------------------------------------------- Redis store client
\* The part of the state RedisClient reads and writes, as one value, so that
\* a handler segment can thread it through several calls.
CurR == [connected |-> connected, store |-> store, clock |-> clock,
         appended |-> appended, failed |-> storeFailed]

Commit(R) ==
    /\ connected' = R.connected
    /\ store' = R.store
    /\ clock' = R.clock
    /\ appended' = R.appended
    /\ storeFailed' = R.failed

\* json.dumps / json.loads of a message object: the list holds the
\* serialised form, never the object.
JsonDumps(obj) == [json |-> obj]
JsonLoads(raw) == raw.json

\* LPUSH key value: insert at the head of the list.
lpush_replace(list, v) == <<v>>
lpush_tail(list, v) == list \o <<v>>
lpush(list, v) == <<v>> \o list

\* reversed(raw_messages)
Reversed_same(s) == s
Reversed(s) == [i \in 1..Len(s) |-> s[Len(s) + 1 - i]]

\* How the server behaves during one call, when the client still believes
\* it is connected: every command works, the ping fails, the list command
\* fails, or the list command works and the following expire fails.
SaveOutcomes(R) ==
    IF R.connected THEN {"ok", "ping_fail", "lpush_fail", "expire_fail"}
    ELSE {"down"}

FetchOutcomes(R) ==
    IF R.connected THEN {"ok", "ping_fail", "lrange_fail"} ELSE {"down"}

\* RedisClient._ensure_connection
EnsureConnection_reconnect(R, pingOk) ==
    IF pingOk THEN [ret |-> TRUE, R |-> [R EXCEPT !.connected = TRUE]]
    ELSE [ret |-> FALSE, R |-> [R EXCEPT !.connected = FALSE, !.failed = TRUE]]
EnsureConnection_optimistic(R, pingOk) == [ret |-> TRUE, R |-> R]
EnsureConnection(R, pingOk) ==
    IF ~R.connected THEN [ret |-> FALSE, R |-> R]
    ELSE IF pingOk THEN [ret |-> TRUE, R |-> R]
    ELSE [ret |-> FALSE, R |-> [R EXCEPT !.connected = FALSE, !.failed = TRUE]]

\* RedisClient.close
close(R) == [R EXCEPT !.connected = FALSE]

\* The content save_message extracts: message["content"] of a dict,
\* the message itself when it is a str.
ExtractContent(message) ==
    IF "content" \in DOMAIN message THEN message.content ELSE message.str

\* RedisClient.save_message; o is the server's behaviour during the call.
save_message(R, session_id, sender, message, o) ==
    LET e == EnsureConnection(R, o # "ping_fail") IN
    IF ~e.ret THEN [ret |-> FALSE, R |-> e.R]
    ELSE
      LET message_obj == [role |-> sender,
                          content |-> ExtractContent(message),
                          timestamp |-> R.clock,
                          s3_doc_url |-> NoneVal]
          R1 == [R EXCEPT !.clock = R.clock + 1]
      IN IF o = "lpush_fail"
         THEN [ret |-> FALSE, R |-> [R1 EXCEPT !.failed = TRUE]]
         ELSE
           LET R2 == [R1 EXCEPT
                        !.store[session_id] =
                            lpush(R.store[session_id], JsonDumps(message_obj))]
           IN IF o = "expire_fail"
              THEN [ret |-> FALSE, R |-> [R2 EXCEPT !.failed = TRUE]]
              ELSE [ret |-> TRUE,
                    R |-> [R2 EXCEPT !.appended[session_id] =
                                Append(R.appended[session_id], message_obj)]]

\* RedisClient.fetch_session_messages
fetch_session_messages(R, session_id, o) ==
    LET e == EnsureConnection(R, o # "ping_fail") IN
    IF ~e.ret THEN [ret |-> <<>>, R |-> e.R]
    ELSE IF o = "lrange_fail"
         THEN [ret |-> <<>>, R |-> [R EXCEPT !.failed = TRUE]]
         ELSE LET raw_messages == R.store[session_id]
                  rev == Reversed(raw_messages)
              IN [ret |-> [i \in 1..Len(rev) |-> JsonLoads(rev[i])], R |-> R]

\* The calls of main.py are all guarded by "if redis_client:".
ClientSaveOutcomes(R) == IF redis_client THEN SaveOutcomes(R) ELSE {"skip"}
ClientFetchOutcomes(R) == IF redis_client THEN FetchOutcomes(R) ELSE {"skip"}

SaveIfClient_useronly(R, session_id, sender, message, o) ==
    IF redis_client /\ sender = "user"
    THEN save_message(R, session_id, sender, message, o).R
    ELSE R
SaveIfClient(R, session_id, sender, message, o) ==
    IF redis_client THEN save_message(R, session_id, sender, message, o).R
    ELSE R

\* build_conversation_context (main.py 111-136): the "conversation" list.
build_conversation_context_lastonly(R, session_id, o) ==
    IF ~redis_client THEN [ret |-> <<>>, R |-> R]
    ELSE LET f == fetch_session_messages(R, session_id, o)
         IN [ret |-> IF f.ret = <<>> THEN <<>> ELSE <<f.ret[Len(f.ret)]>>,
             R |-> f.R]
build_conversation_context(R, session_id, o) ==
    IF ~redis_client THEN [ret |-> <<>>, R |-> R]
    ELSE fetch_session_messages(R, session_id, o)

\* format_conversation_context (context_builder.py 45-77): the parameter is
\* rebound to a fresh empty list before the loop, which then iterates over
\* that empty list.
format_conversation_context(conversation_context) ==
    LET rebound == <<>> IN
    [i \in 1..Len(rebound) |-> rebound[i]]

\* ----------------------------------------------------------- model backend
\* What VertexClient.predict returns: None when no model is loaded
\* (ai_client.py 259-263), else a result dict: a prediction (387-402), or
\* success false when the backend call raised (404-413).
PredictResults ==
    IF ai_client = "nomodels"
    THEN { [none |-> TRUE, prediction |-> NoneVal, model_id |-> "unknown",
            success |-> FALSE] }
    ELSE { [none |-> FALSE, prediction |-> t, model_id |-> "m1",
            success |-> TRUE] : t \in GeneratedTexts }
         \cup
         { [none |-> FALSE, prediction |-> NoneVal, model_id |-> "m1",
            success |-> FALSE] }

\* -------------------------------------------------------- transcription
\* What STTClient.transcribe_base64_audio returns.
TranscribeResults ==
    { [success |-> FALSE, transcriptions |-> <<>>],
      [success |-> TRUE, transcriptions |-> <<>>] }
    \cup
    { [success |-> TRUE,
       transcriptions |-> << [transcript |-> t, confidence |-> f] >>]
        : t \in Transcripts, f \in Confidences }


\* ------------------------------------------------------ websocket_endpoint
\* An outbound frame; frame_no is history: the inbound frame it belongs to.
\* success is "absent" and confidence is -1 when meta has no such key.
OutFrame(type, content, source, success, confidence, frame_no) ==
    [type |-> type, content |-> content, source |-> source,
     success |-> success, confidence |-> confidence, frame_no |-> frame_no]

AwaitPoints_all ==
    {"recv", "send_err", "send_transcription", "send_response", "closed"}
AwaitPoints == {"recv", "send_err", "send_transcription", "send_response"}

\* An exception the handler does not catch leaves websocket_endpoint.
Raise(c, exc) ==
    /\ pc' = [pc EXCEPT ![c] = "closed"]
    /\ closeReason' = [closeReason EXCEPT ![c] = exc]
    /\ local' = [local EXCEPT ![c] = NoLocal]

\* Where the handler is after the disconnect handler has run.
AfterDisconnect_rearmed == "recv"
AfterDisconnect == "closed"

\* main.py 298-305: save the reply, then await send_json(ai_response).
SaveAndSend_onsuccess(c, R, ai_response) ==
    \E o \in ClientSaveOutcomes(R) :
        /\ Commit(IF ai_response.success = "false" THEN R
                  ELSE SaveIfClient(R, sid[c], MessageSender.IA,
                                    ai_response, o))
        /\ pc' = [pc EXCEPT ![c] = "send_response"]
        /\ local' = [local EXCEPT ![c] =
                        [frame |-> ai_response, user_message |-> NoneVal]]
        /\ closeReason' = closeReason
SaveAndSend(c, R, ai_response) ==
    \E o \in ClientSaveOutcomes(R) :
        /\ Commit(SaveIfClient(R, sid[c], MessageSender.IA, ai_response, o))
        /\ pc' = [pc EXCEPT ![c] = "send_response"]
        /\ local' = [local EXCEPT ![c] =
                        [frame |-> ai_response, user_message |-> NoneVal]]
        /\ closeReason' = closeReason

\* main.py 268-305: from "if ai_client:" to the await of the response send.
Respond(c, R, user_message, k) ==
    IF ai_client # "none"
    THEN \E fo \in ClientFetchOutcomes(R), ai_result \in PredictResults :
           LET b == build_conversation_context(R, sid[c], fo)
               ctx == format_conversation_context(b.ret)
           IN /\ modelCalls' = [modelCalls EXCEPT ![c] = @ + 1]
              /\ turns' = [turns EXCEPT ![c] =
                              Append(@, [frame_no |-> k,
                                         none |-> ai_result.none,
                                         generated |-> ai_result.prediction,
                                         success |-> ai_result.success,
                                         ctx |-> ctx])]
              /\ IF ai_result.none
                 THEN \* line 280: ai_result.get("model_id", ...) on None
                      /\ Commit(b.R)
                      /\ Raise(c, "AttributeError(NoneType.get)")
                 ELSE SaveAndSend(c, b.R,
                        OutFrame("text", ai_result.prediction,
                                 ai_result.model_id,
                                 IF ai_result.success THEN "true" ELSE "false",
                                 -1, k))
    ELSE /\ UNCHANGED << modelCalls, turns >>
         /\ SaveAndSend(c, R,
              OutFrame("text", <<"Echo: ">> \o user_message, "mock_ai",
                       "absent", -1, k))

\* redis_client, stt_client and ai_client are called without await and are
\* blocking clients (main.py 165-168, 190-194, 269-274): from the return of
\* receive_json to the next await the handler keeps the event loop's one
\* thread, and no other coroutine is resumed.
LoopIdle == \A d \in Conns : pc[d] # "running"

\* The session-id header a client may supply: c1 names session s1, c2 names
\* the same session or another one.
SessionHeaders(c) == IF c = "c1" THEN {"s1"} ELSE Sessions

\* await websocket.accept(); read the user-id and session-id headers.
Accept(c) ==
    /\ pc[c] = "new"
    /\ LoopIdle
    /\ c \in peers
    /\ \E s \in SessionHeaders(c) : sid' = [sid EXCEPT ![c] = s]
    /\ pc' = [pc EXCEPT ![c] = "recv"]
    /\ UNCHANGED << config, connected, store, clock, local, outbox,
                    closeReason, reports, health, upload, appended, storeFailed, kinds, turns,
                    modelCalls, reportEntered, finalRead >>

RECURSIVE SumLen(_, _)
SumLen(f, S) ==
    IF S = {} THEN 0
    ELSE LET x == CHOOSE y \in S : TRUE IN Len(f[x]) + SumLen(f, S \ {x})

FramesSent == SumLen(kinds, Conns)

CanReceive(c) == pc[c] = "recv" /\ FramesSent < MaxFrames /\ LoopIdle

\* await websocket.receive_json() returns a frame (line 150); the handler
\* runs lines 152-305 up to its next await.
ReceiveJson(c) ==
    /\ CanReceive(c)
    /\ pc' = [pc EXCEPT ![c] = "running"]
    /\ UNCHANGED << config, connected, store, clock, sid, local, outbox,
                    closeReason, reports, health, upload, appended, storeFailed,
                    kinds, turns, modelCalls, reportEntered, finalRead >>

\* A text frame: lines 162-168, then 268-305.
RecvText(c) ==
    /\ pc[c] = "running"
    /\ \E content \in ContentValues, audio \in AudioValues :
         /\ IsTextBranch(NonBlank(content), NonBlank(audio))
         /\ kinds' = [kinds EXCEPT ![c] = Append(@, FrameKind(content, audio))]
         /\ \E o \in ClientSaveOutcomes(CurR) :
              Respond(c,
                      SaveIfClient(CurR, sid[c], MessageSender.USER,
                                   [str |-> content], o),
                      content, Len(kinds[c]) + 1)
    /\ UNCHANGED << config, sid, outbox, reports, health, upload, reportEntered, finalRead >>

\* An audio frame: lines 170-257, up to the first await.
RecvAudio(c) ==
    /\ pc[c] = "running"
    /\ \E content \in ContentValues, audio \in AudioValues :
         /\ ~IsTextBranch(NonBlank(content), NonBlank(audio))
         /\ IsAudioBranch(NonBlank(content), NonBlank(audio))
         /\ kinds' = [kinds EXCEPT ![c] = Append(@, FrameKind(content, audio))]
    /\ LET k == Len(kinds[c]) + 1
           SendError(text, source) ==
               /\ pc' = [pc EXCEPT ![c] = "send_err"]
               /\ local' = [local EXCEPT ![c] =
                    [frame |-> OutFrame("error", <<text>>, source, "absent",
                                        -1, k),
                     user_message |-> NoneVal]]
               /\ closeReason' = closeReason
       IN IF ~stt_client
          THEN SendError("Speech-to-Text service not available", "server")
          ELSE \E transcription_result \in TranscribeResults :
                 IF ~transcription_result.success
                 THEN SendError("Transcription failed", "stt")
                 ELSE IF transcription_result.transcriptions = <<>>
                 THEN SendError("No transcription results", "stt")
                 ELSE LET best == transcription_result.transcriptions[1] IN
                      IF redis_client /\ ~HasMember("AUDIO")
                      THEN \* line 241: MessageSender.AUDIO is no member
                           Raise(c, "AttributeError(MessageSender.AUDIO)")
                      ELSE /\ pc' = [pc EXCEPT ![c] = "send_transcription"]
                           /\ local' = [local EXCEPT ![c] =
                                [frame |-> OutFrame("transcription",
                                             best.transcript, "stt", "absent",
                                             best.confidence, k),
                                 user_message |-> best.transcript]]
                           /\ closeReason' = closeReason
    /\ UNCHANGED << config, connected, store, clock, sid, outbox, reports, health, upload,
                    appended, storeFailed, turns, modelCalls, reportEntered,
                    finalRead >>

\* A frame with both or neither of content and audio: lines 259-266.
RecvInvalid(c) ==
    /\ pc[c] = "running"
    /\ \E content \in ContentValues, audio \in AudioValues :
         /\ ~IsTextBranch(NonBlank(content), NonBlank(audio))
         /\ ~IsAudioBranch(NonBlank(content), NonBlank(audio))
         /\ kinds' = [kinds EXCEPT ![c] = Append(@, FrameKind(content, audio))]
    /\ Raise(c, "ValueError")
    /\ UNCHANGED << config, connected, store, clock, sid, outbox, reports, health, upload,
                    appended, storeFailed, turns, modelCalls, reportEntered,
                    finalRead >>

\* The send of an error frame completes; "continue" (lines 184, 208, 224).
SendErrorDone_twice(c) ==
    /\ pc[c] = "send_err"
    /\ LoopIdle
    /\ outbox' = [outbox EXCEPT ![c] = @ \o <<local[c].frame, local[c].frame>>]
    /\ pc' = [pc EXCEPT ![c] = "recv"]
    /\ local' = [local EXCEPT ![c] = NoLocal]
    /\ UNCHANGED << config, connected, store, clock, sid, closeReason, reports, health, upload,
                    appended, storeFailed, kinds, turns, modelCalls,
                    reportEntered, finalRead >>
SendErrorDone_break(c) ==
    /\ pc[c] = "send_err"
    /\ LoopIdle
    /\ outbox' = [outbox EXCEPT ![c] = Append(@, local[c].frame)]
    /\ pc' = [pc EXCEPT ![c] = "closed"]
    /\ local' = [local EXCEPT ![c] = NoLocal]
    /\ UNCHANGED << config, connected, store, clock, sid, closeReason, reports, health, upload,
                    appended, storeFailed, kinds, turns, modelCalls,
                    reportEntered, finalRead >>
SendErrorDone(c) ==
    /\ pc[c] = "send_err"
    /\ LoopIdle
    /\ outbox' = [outbox EXCEPT ![c] = Append(@, local[c].frame)]
    /\ pc' = [pc EXCEPT ![c] = "recv"]
    /\ local' = [local EXCEPT ![c] = NoLocal]
    /\ UNCHANGED << config, connected, store, clock, sid, closeReason, reports, health, upload,
                    appended, storeFailed, kinds, turns, modelCalls,
                    reportEntered, finalRead >>

\* The send of the transcription frame completes (line 245); the handler
\* goes on with lines 268-305.
SendTranscriptionDone(c) ==
    /\ pc[c] = "send_transcription"
    /\ LoopIdle
    /\ outbox' = [outbox EXCEPT ![c] = Append(@, local[c].frame)]
    /\ Respond(c, CurR, local[c].user_message, Len(kinds[c]))
    /\ UNCHANGED << config, sid, reports, health, upload, kinds, reportEntered, finalRead >>

\* The send of the response completes (line 305); back to receive_json.
SendResponseDone_nowait(c) ==
    /\ pc[c] = "send_response"
    /\ LoopIdle
    /\ pc' = [pc EXCEPT ![c] = "recv"]
    /\ local' = [local EXCEPT ![c] = NoLocal]
    /\ UNCHANGED << config, connected, store, clock, sid, closeReason, reports, health, upload,
                    appended, storeFailed, kinds, turns, modelCalls,
                    reportEntered, finalRead, outbox >>
SendResponseDone(c) ==
    /\ pc[c] = "send_response"
    /\ LoopIdle
    /\ outbox' = [outbox EXCEPT ![c] = Append(@, local[c].frame)]
    /\ pc' = [pc EXCEPT ![c] = "recv"]
    /\ local' = [local EXCEPT ![c] = NoLocal]
    /\ UNCHANGED << config, connected, store, clock, sid, closeReason, reports, health, upload,
                    appended, storeFailed, kinds, turns, modelCalls,
                    reportEntered, finalRead >>

\* The transport reports a disconnect at an await: lines 308-326.  The
\* handler re-reads the log and prints; every later step of the report
\* workflow, save_report included, is commented out.
Disconnect(c) ==
    /\ pc[c] \in AwaitPoints
    /\ LoopIdle
    /\ \E fo \in ClientFetchOutcomes(CurR) :
         LET conversation_context ==
                 build_conversation_context(CurR, sid[c], fo)
         IN /\ Commit(conversation_context.R)
            /\ finalRead' = [finalRead EXCEPT ![c] =
                    [done |-> TRUE,
                     conversation |-> conversation_context.ret]]
    /\ reportEntered' = [reportEntered EXCEPT ![c] = @ + 1]
    /\ pc' = [pc EXCEPT ![c] = AfterDisconnect]
    /\ closeReason' = [closeReason EXCEPT ![c] = "disconnect"]
    /\ local' = [local EXCEPT ![c] = NoLocal]
    /\ UNCHANGED << config, sid, outbox, reports, health, upload, kinds, turns, modelCalls >>

Next ==
    \E c \in Conns :
        \/ Accept(c)
        \/ ReceiveJson(c)
        \/ RecvText(c)
        \/ RecvAudio(c)
        \/ RecvInvalid(c)
        \/ SendErrorDone(c)
        \/ SendTranscriptionDone(c)
        \/ SendResponseDone(c)
        \/ Disconnect(c)

Spec == Init /\ [][Next]_vars

\* Two clients connected at once; the model and the speech client are
\* constructed, the store is not (its failure modes are explored by Spec).
InitPair ==
    /\ peers = Conns
    /\ ai_client = "ok"
    /\ redis_client = FALSE
    /\ stt_client = TRUE
    /\ db_client = FALSE
    /\ health = NoHealth
    /\ upload = NoUpload
    /\ connected = redis_client
    /\ store = [s \in Sessions |-> <<>>]
    /\ clock = 0
    /\ pc = [c \in Conns |-> "new"]
    /\ sid = [c \in Conns |-> NoneVal]
    /\ local = [c \in Conns |-> NoLocal]
    /\ outbox = [c \in Conns |-> <<>>]
    /\ closeReason = [c \in Conns |-> "none"]
    /\ reports = [c \in Conns |-> 0]
    /\ appended = [s \in Sessions |-> <<>>]
    /\ storeFailed = FALSE
    /\ kinds = [c \in Conns |-> <<>>]
    /\ turns = [c \in Conns |-> <<>>]
    /\ modelCalls = [c \in Conns |-> 0]
    /\ reportEntered = [c \in Conns |-> 0]
    /\ finalRead = [c \in Conns |-> NotRead]

SpecPair == InitPair /\ [][Next]_vars


\* ------------------------------------------------------------ POST /upload
\* content_base64 values: characters of the base64 alphabet ("Q"), padding
\* ("=") and a character outside the alphabet ("!").
Base64Values ==
    { <<"Q", "Q", "=", "=">>, <<"Q", "Q", "Q">>, <<"!", "Q", "Q", "=", "=">> }

Base64Alphabet == {"Q", "="}

\* base64.b64decode(s) with validate=False: characters outside the alphabet
\* are discarded, then the length of what is left must be a multiple of 4
\* (binascii.Error "Incorrect padding" otherwise).
RECURSIVE DiscardNonAlphabet(_)
DiscardNonAlphabet(s) ==
    IF s = <<>> THEN <<>>
    ELSE IF Head(s) \in Base64Alphabet
         THEN <<Head(s)>> \o DiscardNonAlphabet(Tail(s))
         ELSE DiscardNonAlphabet(Tail(s))

B64DecodeOk(s) == Len(DiscardNonAlphabet(s)) % 4 = 0

\* The methods class FileHandler defines.
FileHandlerMethods ==
    { "get_file_info", "generate_file_id", "upload_to_s3",
      "_create_thumbnail", "_upload_thumbnail", "get_signed_upload_url" }

\* The except clauses of upload(): "except ValueError" answers 400 with the
\* exception's text, "except Exception" answers 500.  HTTPException and
\* AttributeError are no ValueError.
UploadExcept(exc) ==
    IF exc = "ValueError"
    THEN [status |-> 400, detail |-> "str(e)"]
    ELSE [status |-> 500, detail |-> "Internal server error during upload"]

\* POST /upload.  The inner except turns a decoding error into
\* HTTPException(400), raised inside the outer try; with the content
\* decoded, file_handler.upload_to_gcp_storage is looked up, and a name
\* FileHandler does not define raises AttributeError before anything is
\* awaited, so lines 382-410 (blob upload, save_message with
\* MessageSender.UPLOAD, the success response) are not reached.
Upload(session_id, content_base64) ==
    LET exc == IF ~B64DecodeOk(content_base64) THEN "HTTPException(400)"
               ELSE "AttributeError(FileHandler.upload_to_gcp_storage)"
        answer == UploadExcept(exc)
    IN /\ "upload_to_gcp_storage" \notin FileHandlerMethods
       /\ upload' = [requested |-> TRUE, session_id |-> session_id,
                     decoded |-> B64DecodeOk(content_base64),
                     status |-> answer.status, detail |-> answer.detail,
                     blob_uploads |-> 0]
       /\ UNCHANGED << config, connected, store, clock, pc, sid, local,
                       outbox, closeReason, reports, health, appended,
                       storeFailed, kinds, turns, modelCalls, reportEntered,
                       finalRead >>

\* Two clients that stay connected and send text frames, and POST /upload
\* requests, on a service whose store is constructed; no model and no
\* speech client (mock replies).
InitShared ==
    /\ peers = Conns
    /\ ai_client = "none"
    /\ redis_client = TRUE
    /\ stt_client = FALSE
    /\ db_client = FALSE
    /\ health = NoHealth
    /\ upload = NoUpload
    /\ connected = redis_client
    /\ store = [s \in Sessions |-> <<>>]
    /\ clock = 0
    /\ pc = [c \in Conns |-> "new"]
    /\ sid = [c \in Conns |-> NoneVal]
    /\ local = [c \in Conns |-> NoLocal]
    /\ outbox = [c \in Conns |-> <<>>]
    /\ closeReason = [c \in Conns |-> "none"]
    /\ reports = [c \in Conns |-> 0]
    /\ appended = [s \in Sessions |-> <<>>]
    /\ storeFailed = FALSE
    /\ kinds = [c \in Conns |-> <<>>]
    /\ turns = [c \in Conns |-> <<>>]
    /\ modelCalls = [c \in Conns |-> 0]
    /\ reportEntered = [c \in Conns |-> 0]
    /\ finalRead = [c \in Conns |-> NotRead]

NextShared ==
    \/ \E c \in Conns :
          \/ Accept(c)
          \/ ReceiveJson(c)
          \/ RecvText(c)
          \/ SendResponseDone(c)
    \/ \E session_id \in Sessions, content_base64 \in Base64Values :
          LoopIdle /\ Upload(session_id, content_base64)

SpecShared == InitShared /\ [][NextShared]_vars


\* ------------------------------------------------------------- GET /health
\* The value a probe contributes to the answer: a dict with "status" and
\* "connected", or the bare bool VertexClient.health_check returns (status
\* holds its rendering).
Healthy == [shape |-> "dict", status |-> "healthy", connected |-> TRUE]

Unhealthy == [shape |-> "dict", status |-> "unhealthy", connected |-> FALSE]

BoolValue(b) ==
    [shape |-> "bool", status |-> IF b THEN "True" ELSE "False", connected |-> b]

\* How the redis server, the database and the speech library behave during
\* one probe.
RedisProbeOutcomes(R) ==
    IF R.connected THEN {"ok", "ping_fail", "info_fail"} ELSE {"down"}

ProbeOutcomes == {"ok", "raise"}

\* RedisClient.health_check: catches everything itself.
redis_health_check(R, o) ==
    LET e == EnsureConnection(R, o # "ping_fail") IN
    IF ~e.ret THEN [ret |-> Unhealthy, R |-> e.R]
    ELSE IF o = "info_fail" THEN [ret |-> Unhealthy, R |-> e.R]
    ELSE [ret |-> Healthy, R |-> e.R]

\* DBClient.health_check: catches everything itself.
db_health_check(o) == IF o = "ok" THEN Healthy ELSE Unhealthy

\* STTClient.health_check: a constructed client has connected = True; the
\* library call inside the try can still raise.
stt_health_check(o) == IF o = "ok" THEN Healthy ELSE Unhealthy

\* VertexClient.health_check: self.connected, True for every constructed
\* client (the constructor raises otherwise and ai_client stays None).
ai_health_check == BoolValue(TRUE)

\* One probe of health(): the call on a client that is None raises
\* AttributeError, which the probe's own except turns into an unhealthy dict.
TryProbe(present, result) == IF present THEN result ELSE Unhealthy

\* GET /health.  o_r, o_d, o_s: the behaviour of redis, the database and the
\* speech library during their probes.  health keeps what was answered and
\* the behaviours it was answered under.
Health_failfast(o_r, o_d, o_s) ==
    LET r == redis_health_check(CurR, o_r)
        all == redis_client /\ ai_client # "none" /\ db_client /\ stt_client
    IN /\ o_r \in RedisProbeOutcomes(CurR)
       /\ connected' = IF redis_client THEN r.R.connected ELSE connected
       /\ health' =
            IF all
            THEN [requested |-> TRUE, returned |-> TRUE,
                  probes |-> [redis |-> o_r, database |-> o_d, stt |-> o_s],
                  services |-> [api |-> "running",
                                database |-> db_health_check(o_d),
                                redis |-> r.ret,
                                ai |-> ai_health_check,
                                stt |-> stt_health_check(o_s)]]
            ELSE [requested |-> TRUE, returned |-> FALSE,
                  probes |-> [redis |-> o_r, database |-> o_d, stt |-> o_s]]
       /\ UNCHANGED << config, store, clock, pc, sid, local, outbox, upload,
                       closeReason, reports, appended, storeFailed, kinds,
                       turns, modelCalls, reportEntered, finalRead >>
Health(o_r, o_d, o_s) ==
    LET r == redis_health_check(CurR, o_r)
        redis_health == TryProbe(redis_client, r.ret)
        ai_health == TryProbe(ai_client # "none", ai_health_check)
        db_health == TryProbe(db_client, db_health_check(o_d))
        stt_health == TryProbe(stt_client, stt_health_check(o_s))
    IN /\ o_r \in RedisProbeOutcomes(CurR)
       /\ connected' = IF redis_client THEN r.R.connected ELSE connected
       /\ health' = [requested |-> TRUE, returned |-> TRUE,
                     probes |-> [redis |-> o_r, database |-> o_d, stt |-> o_s],
                     services |-> [api |-> "running",
                                   database |-> db_health,
                                   redis |-> redis_health,
                                   ai |-> ai_health,
                                   stt |-> stt_health]]
       /\ UNCHANGED << config, store, clock, pc, sid, local, outbox, upload,
                       closeReason, reports, appended, storeFailed, kinds,
                       turns, modelCalls, reportEntered, finalRead >>

\* The service with any set of collaborators constructed, answering health
\* requests only.
InitHealth ==
    /\ peers = {}
    /\ ai_client \in {"none", "nomodels", "ok"}
    /\ redis_client \in BOOLEAN
    /\ stt_client \in BOOLEAN
    /\ db_client \in BOOLEAN
    /\ health = NoHealth
    /\ upload = NoUpload
    /\ connected = redis_client
    /\ store = [s \in Sessions |-> <<>>]
    /\ clock = 0
    /\ pc = [c \in Conns |-> "new"]
    /\ sid = [c \in Conns |-> NoneVal]
    /\ local = [c \in Conns |-> NoLocal]
    /\ outbox = [c \in Conns |-> <<>>]
    /\ closeReason = [c \in Conns |-> "none"]
    /\ reports = [c \in Conns |-> 0]
    /\ appended = [s \in Sessions |-> <<>>]
    /\ storeFailed = FALSE
    /\ kinds = [c \in Conns |-> <<>>]
    /\ turns = [c \in Conns |-> <<>>]
    /\ modelCalls = [c \in Conns |-> 0]
    /\ reportEntered = [c \in Conns |-> 0]
    /\ finalRead = [c \in Conns |-> NotRead]

NextHealth ==
    \E o_r \in {"ok", "ping_fail", "info_fail", "down"} :
      \E o_d \in ProbeOutcomes : \E o_s \in ProbeOutcomes :
        Health(o_r, o_d, o_s)

SpecHealth == InitHealth /\ [][NextHealth]_vars


\* ================================================================= claims
LastKind(c) == kinds[c][Len(kinds[c])]

InvalidKinds == {"both", "neither"}

\* The handler has nothing left to do for the frames it has received.
Settled(c) == pc[c] \in {"recv", "closed"}

SentinelTurns(c) ==
    { j \in DOMAIN turns[c] : ContainsSentinel(turns[c][j].generated) }

FramesFor(c, k, type) ==
    { i \in DOMAIN outbox[c] :
        outbox[c][i].frame_no = k /\ outbox[c][i].type = type }

\* C1: once a session that ended by a transport disconnect (with or without
\* a sentinel turn before it) is Closed, exactly one Report is persisted
\* for it.
C1_ExactlyOneReport ==
    \A c \in Conns :
        (pc[c] = "closed" /\ closeReason[c] = "disconnect") => reports[c] = 1

C3_TokenStripped ==
    \A c \in Conns : \A j \in DOMAIN turns[c] : \A i \in DOMAIN outbox[c] :
        (outbox[c][i].type = "text"
            /\ outbox[c][i].frame_no = turns[c][j].frame_no)
        => \A t \in SentinelTokens :
               Contains(turns[c][j].generated, t)
                   => ~Contains(outbox[c][i].content, t)

\* C4: after a model turn whose generated text contains a sentinel, the
\* session is no longer Active and the report workflow has been invoked.
C4_SentinelTerminates ==
    \A c \in Conns :
        (SentinelTurns(c) # {} /\ Settled(c))
        => (pc[c] # "recv" /\ reportEntered[c] = 1)

\* C5: with the store available throughout, reading a session returns
\* exactly the messages appended to it, oldest first, in append order.
C5_ReadOrder ==
    \A s \in Sessions :
        (redis_client /\ ~storeFailed)
        => fetch_session_messages(CurR, s, "ok").ret = appended[s]

\* Three or more messages were appended, no two of them equal.
C5_Witness ==
    \E s \in Sessions :
        /\ redis_client /\ ~storeFailed
        /\ Len(appended[s]) >= 3
        /\ appended[s][1].role = "user"
        /\ appended[s][2].role = "ai"
        /\ fetch_session_messages(CurR, s, "ok").ret[3] = appended[s][3]

\* C6: the step that receives a frame with both or neither of content and
\* audio appends nothing to any session log and invokes no model call.
C6_InvalidNeverReachesStore ==
    [][ \A c \in Conns :
          (Len(kinds'[c]) = Len(kinds[c]) + 1
              /\ kinds'[c][Len(kinds'[c])] \in InvalidKinds)
          => (store' = store /\ appended' = appended
                /\ modelCalls' = modelCalls /\ turns' = turns) ]_vars

\* A frame with both fields arrived on a session whose log is not empty.
C6_Witness ==
    \E c \in Conns :
        /\ Len(kinds[c]) = 2
        /\ LastKind(c) = "both"
        /\ sid[c] \in Sessions
        /\ Len(store[sid[c]]) = 2
        /\ modelCalls[c] = 1

\* C7: after a frame that fails validation the session is still Active.
C7_InvalidKeepsActive ==
    \A c \in Conns :
        (kinds[c] # <<>> /\ LastKind(c) \in InvalidKinds
            /\ closeReason[c] # "disconnect")
        => pc[c] # "closed"

\* C8: a frame that fails validation is answered with exactly one "error"
\* frame and no "text" frame.
C8_InvalidGetsErrorFrame ==
    \A c \in Conns : \A k \in DOMAIN kinds[c] :
        (kinds[c][k] \in InvalidKinds /\ Settled(c)
            /\ closeReason[c] # "disconnect")
        => (Cardinality(FramesFor(c, k, "error")) = 1
              /\ FramesFor(c, k, "text") = {})

\* C9: with the store failing (client absent, or the connection lost so
\* that every append and read fails), a valid text frame is answered with
\* one response frame and the session is Active afterwards.
C9_StoreFailureStillAnswered ==
    \A c \in Conns :
        ((~redis_client \/ ~connected) /\ kinds[c] # <<>>
            /\ LastKind(c) = "text"
            /\ Settled(c) /\ closeReason[c] # "disconnect")
        => (Cardinality(FramesFor(c, Len(kinds[c]), "text")) = 1
              /\ pc[c] = "recv")

\* A collaborator failed while the last received frame was processed: the
\* model call failed or returned no result, the transcription client was
\* absent or failed (an "error" frame was built), or the store has failed.
CollaboratorFailed(c) ==
    \/ \E j \in DOMAIN turns[c] :
          /\ turns[c][j].frame_no = Len(kinds[c])
          /\ (turns[c][j].none \/ ~turns[c][j].success)
    \/ FramesFor(c, Len(kinds[c]), "error") # {}
    \/ (storeFailed /\ LastKind(c) = "text")

\* C10: no failure of a collaborator ends the websocket loop: once the
\* handler is done with the frame it is back at receive_json, and no
\* exception has left websocket_endpoint.
C10_NoCollaboratorFailureEndsLoop ==
    \A c \in Conns :
        (kinds[c] # <<>> /\ CollaboratorFailed(c)
            /\ Settled(c) /\ closeReason[c] # "disconnect")
        => (pc[c] = "recv" /\ closeReason[c] = "none")


\* The last received frame carries a user message: a text frame, or an audio
\* frame whose transcription returned a transcript (the transcription frame
\* was built, or building the log entry for it raised).
HasUserMessage(c) ==
    /\ kinds[c] # <<>>
    /\ \/ LastKind(c) = "text"
       \/ /\ LastKind(c) = "audio"
          /\ \/ FramesFor(c, Len(kinds[c]), "transcription") # {}
             \/ closeReason[c] = "AttributeError(MessageSender.AUDIO)"

\* C11: with no model client, a frame that carries a user message is
\* answered with exactly one "text" frame "Echo: <message>" from "mock_ai",
\* that reply is the newest log entry when the store works, and the session
\* is Active afterwards.
C11_EchoFallback ==
    \A c \in Conns :
        (ai_client = "none" /\ HasUserMessage(c) /\ Settled(c)
            /\ closeReason[c] # "disconnect")
        => LET k == Len(kinds[c])
               replies == FramesFor(c, k, "text")
           IN /\ Cardinality(replies) = 1
              /\ \A i \in replies :
                    /\ outbox[c][i].source = "mock_ai"
                    /\ SubSeq(outbox[c][i].content, 1, 1) = <<"Echo: ">>
                    /\ Len(outbox[c][i].content) > 1
                    /\ (redis_client /\ ~storeFailed)
                        => JsonLoads(Head(store[sid[c]])).content
                               = outbox[c][i].content
              /\ pc[c] = "recv"

\* C12: with the store available, after k text frames each answered, the
\* session log has 2k entries: user entry, assistant entry, alternating.
C12_TwoEntriesPerCycle ==
    \A c \in Conns :
        (redis_client /\ ~storeFailed /\ pc[c] = "recv"
            /\ \A i \in DOMAIN kinds[c] : kinds[c][i] = "text")
        => LET log == fetch_session_messages(CurR, sid[c], "ok").ret
           IN /\ Len(log) = 2 * Len(kinds[c])
              /\ \A i \in DOMAIN log :
                    log[i].role = IF i % 2 = 1 THEN MessageSender.USER
                                  ELSE MessageSender.IA

\* Two full response cycles on a fresh session.
C12_Witness ==
    \E c \in Conns :
        /\ redis_client /\ ~storeFailed /\ pc[c] = "recv"
        /\ kinds[c] = <<"text", "text">>
        /\ Len(store[sid[c]]) = 4

\* C13: without a transcription client, an audio frame is answered with
\* exactly one frame, the error "Speech-to-Text service not available";
\* nothing is appended, no model call is made, and the loop receives again.
C13_NoSttErrorFrame ==
    /\ [](\A c \in Conns :
            (~stt_client /\ kinds[c] # <<>> /\ LastKind(c) = "audio"
                /\ Settled(c) /\ closeReason[c] # "disconnect")
            => LET k == Len(kinds[c])
                   sent == { i \in DOMAIN outbox[c] : outbox[c][i].frame_no = k }
               IN /\ Cardinality(sent) = 1
                  /\ \A i \in sent :
                        /\ outbox[c][i].type = "error"
                        /\ outbox[c][i].content =
                             <<"Speech-to-Text service not available">>
                  /\ pc[c] = "recv"
                  /\ \A j \in DOMAIN turns[c] : turns[c][j].frame_no # k)
    /\ [][ \A c \in Conns :
             (~stt_client /\ Len(kinds'[c]) = Len(kinds[c]) + 1
                 /\ kinds'[c][Len(kinds'[c])] = "audio")
             => (store' = store /\ modelCalls' = modelCalls) ]_vars

\* The error frame for an audio frame was delivered with no
\* transcription client, on a session that already has a log.
C13_Witness ==
    \E c \in Conns :
        /\ ~stt_client
        /\ kinds[c] = <<"text", "audio">>
        /\ pc[c] = "recv"
        /\ Len(outbox[c]) = 2
        /\ outbox[c][2].type = "error"

\* C14: a handler that ended with an exception other than a disconnect is
\* Closed and never runs the finalization path: no re-read of the log, no
\* report generation.  Only a disconnect enters the finalization path.
C14_OnlyDisconnectFinalizes ==
    /\ [](\A c \in Conns :
            /\ closeReason[c] \notin {"none", "disconnect"}
                 => (pc[c] = "closed" /\ reportEntered[c] = 0
                       /\ ~finalRead[c].done)
            /\ (reportEntered[c] > 0 \/ finalRead[c].done)
                 => closeReason[c] = "disconnect")
    /\ [][ \A c \in Conns :
             closeReason[c] \notin {"none", "disconnect"}
             => (pc'[c] = "closed" /\ reportEntered'[c] = reportEntered[c]
                   /\ finalRead'[c] = finalRead[c]) ]_vars

\* A handler ended by the ValueError of an invalid frame, after a frame
\* that was answered.
C14_Witness ==
    \E c \in Conns :
        /\ closeReason[c] = "ValueError"
        /\ pc[c] = "closed"
        /\ Len(kinds[c]) = 2
        /\ reportEntered[c] = 0


C16_ContextMirrorsLog ==
    \A s \in Sessions :
        (redis_client /\ connected)
        => LET log == fetch_session_messages(CurR, s, "ok").ret
               ctx == format_conversation_context(log)
           IN /\ Len(ctx) = Len(log)
              /\ \A i \in DOMAIN log :
                    /\ ctx[i].role = log[i].role
                    /\ ctx[i].text = log[i].content

\* C17: every stored entry has a role among user, assistant, upload, audio.
C17_StoredRoles ==
    \A s \in Sessions : \A i \in DOMAIN store[s] :
        JsonLoads(store[s][i]).role \in {"user", "assistant", "upload", "audio"}

\* The message of the k-th frame of connection c, and the reply the mock
\* branch builds for it.
EchoOf(c, k) ==
    <<"Echo: ">> \o (IF kinds[c][k] = "text" THEN <<"hi">> ELSE <<"spoken">>)

\* C19: the loop is back at receive_json only when every received frame has
\* had its final outbound frame sent; a frame causes at most one model call;
\* outbound frames follow the order of the inbound frames, and each "text"
\* frame answers the frame it was built for.
C19_InOrderNoBatching ==
    \A c \in Conns :
        /\ pc[c] = "recv"
             => \A k \in DOMAIN kinds[c] :
                    FramesFor(c, k, "text") \cup FramesFor(c, k, "error") # {}
        /\ \A k \in DOMAIN kinds[c] :
               /\ Cardinality({ j \in DOMAIN turns[c] :
                                  turns[c][j].frame_no = k }) <= 1
               /\ Cardinality(FramesFor(c, k, "text")) <= 1
        /\ modelCalls[c] <= Len(kinds[c])
        /\ \A i, j \in DOMAIN outbox[c] :
               i < j => outbox[c][i].frame_no <= outbox[c][j].frame_no
        /\ \A i \in DOMAIN outbox[c] :
               outbox[c][i].type = "text"
               => LET k == outbox[c][i].frame_no
                  IN IF ai_client = "none"
                     THEN outbox[c][i].content = EchoOf(c, k)
                     ELSE \E j \in DOMAIN turns[c] :
                            /\ turns[c][j].frame_no = k
                            /\ turns[c][j].generated = outbox[c][i].content

\* Two frames were answered, one after the other, by two model turns.
C19_Witness ==
    \E c \in Conns :
        /\ pc[c] = "recv"
        /\ Len(kinds[c]) = 2
        /\ Len(turns[c]) = 2
        /\ FramesFor(c, 1, "text") = {1}
        /\ FramesFor(c, 2, "text") = {2}


C18_OtherSessionProceeds ==
    \A c, d \in Conns :
        (c # d /\ pc[c] = "running" /\ pc[d] = "recv"
           /\ FramesSent + 1 < MaxFrames)
        => ENABLED ReceiveJson(d)


\* C21: an audio-only frame whose transcription returned a transcript is
\* answered, in this order, by one "transcription" frame carrying the
\* transcript and one "text" response; with the store working the log ends
\* with an "audio" entry carrying the transcript and the reply entry after
\* it; the session is Active afterwards.
C21_AudioCycle ==
    \A c \in Conns :
        (kinds[c] # <<>> /\ LastKind(c) = "audio" /\ stt_client
            /\ ai_client # "nomodels"
            /\ FramesFor(c, Len(kinds[c]), "error") = {}
            /\ Settled(c) /\ closeReason[c] # "disconnect")
        => LET k == Len(kinds[c])
               log == appended[sid[c]]
           IN /\ pc[c] = "recv"
              /\ Cardinality(FramesFor(c, k, "transcription")) = 1
              /\ Cardinality(FramesFor(c, k, "text")) = 1
              /\ \A i \in FramesFor(c, k, "transcription") :
                    /\ outbox[c][i].content \in Transcripts
                    /\ outbox[c][i].confidence \in Confidences
                    /\ \A j \in FramesFor(c, k, "text") : i < j
              /\ (redis_client /\ ~storeFailed)
                   => /\ Len(log) >= 2
                      /\ log[Len(log) - 1].role = "audio"
                      /\ log[Len(log) - 1].content \in Transcripts

\* The error frames of frame k of connection c that report a transcription
\* failure or an empty transcription list.
SttErrors(c, k) ==
    { i \in FramesFor(c, k, "error") : outbox[c][i].source = "stt" }

\* C22: the step that receives an audio-only frame whose transcription
\* fails or returns no transcription appends nothing and calls no model;
\* the frame is answered by exactly one "error" frame and nothing else, and
\* the handler is back at receive_json (or has received the next frame)
\* after it.
C22_TranscriptionFailure ==
    /\ [](\A c \in Conns : \A k \in DOMAIN kinds[c] :
            SttErrors(c, k) # {}
            => /\ kinds[c][k] = "audio"
               /\ Cardinality(FramesFor(c, k, "error")) = 1
               /\ FramesFor(c, k, "text") = {}
               /\ FramesFor(c, k, "transcription") = {}
               /\ \A j \in DOMAIN turns[c] : turns[c][j].frame_no # k
               /\ (k = Len(kinds[c]) /\ closeReason[c] # "disconnect")
                    => pc[c] \in {"recv", "running"})
    /\ [][ \A c \in Conns :
             (Len(kinds'[c]) = Len(kinds[c]) + 1
                 /\ pc'[c] = "send_err"
                 /\ local'[c].frame.source = "stt")
             => /\ local'[c].frame.type = "error"
                /\ closeReason'[c] = "none"
                /\ store' = store /\ appended' = appended
                /\ modelCalls' = modelCalls /\ turns' = turns ]_vars

\* A transcription failed on a session that had answered a text frame, and
\* the handler is back at receive_json with the log as it was.
C22_Witness ==
    \E c \in Conns :
        /\ Len(kinds[c]) = 2
        /\ kinds[c][1] = "text"
        /\ SttErrors(c, 2) # {}
        /\ pc[c] = "recv"
        /\ modelCalls[c] <= 1
        /\ redis_client /\ ~storeFailed
        /\ Len(appended[sid[c]]) = 2

\* C23: the branch a frame takes is decided by the non-blankness of its two
\* fields: a frame that is text by that rule takes the text branch, one that
\* is audio takes the audio branch, every other one raises the validation
\* error; the three branch conditions exclude each other and cover all
\* frames.
C23_Classification ==
    /\ [](\A content \in ContentValues, audio \in AudioValues :
            LET hc == NonBlank(content)
                ha == NonBlank(audio)
                t == IsTextBranch(hc, ha)
                a == ~t /\ IsAudioBranch(hc, ha)
                e == ~t /\ ~IsAudioBranch(hc, ha)
            IN /\ t <=> (content = <<"hi">> /\ audio \in {NoneVal, <<>>, <<" ">>})
               /\ a <=> (audio = <<"b64">> /\ content \in {NoneVal, <<>>, <<" ">>})
               /\ e <=> ~(t \/ a)
               /\ Cardinality({x \in {"t", "a", "e"} :
                     \/ x = "t" /\ t
                     \/ x = "a" /\ a
                     \/ x = "e" /\ e}) = 1)
    /\ [][ \A c \in Conns :
             Len(kinds'[c]) = Len(kinds[c]) + 1
             => LET kind == kinds'[c][Len(kinds'[c])]
                    textBranch ==
                        \/ pc'[c] = "send_response"
                        \/ closeReason'[c] = "AttributeError(NoneType.get)"
                    audioBranch ==
                        \/ pc'[c] \in {"send_err", "send_transcription"}
                        \/ closeReason'[c] = "AttributeError(MessageSender.AUDIO)"
                    errorBranch == closeReason'[c] = "ValueError"
                IN /\ kind = "text" <=> textBranch
                   /\ kind = "audio" <=> audioBranch
                   /\ kind \in InvalidKinds <=> errorBranch ]_vars

\* All three outcomes happened: a text frame was answered and a frame with
\* both fields raised the validation error on one connection.
C23_Witness ==
    \E c \in Conns :
        /\ Len(kinds[c]) = 2
        /\ kinds[c][1] = "text"
        /\ kinds[c][2] = "both"
        /\ closeReason[c] = "ValueError"


\* The behaviours of the server under which _ensure_connection reports the
\* store unavailable: the client already lost the connection, or the ping
\* fails now.
UnavailableOutcomes(R) == IF R.connected THEN {"ping_fail"} ELSE {"down"}

\* C24: when the store is unavailable, save_message returns False and
\* leaves every session log unchanged and fetch_session_messages returns
\* the empty list; a step of the handler taken while the connection is lost
\* changes no log.
C24_UnavailableStore ==
    /\ [](\A s \in Sessions : \A o \in UnavailableOutcomes(CurR) :
            LET sv == save_message(CurR, s, MessageSender.USER,
                                   [str |-> <<"hi">>], o)
                ft == fetch_session_messages(CurR, s, o)
            IN /\ sv.ret = FALSE
               /\ sv.R.store = store
               /\ sv.R.appended = appended
               /\ ft.ret = <<>>
               /\ ft.R.store = store)
    /\ [][ ~connected => (store' = store /\ appended' = appended) ]_vars

\* The connection was lost with two entries in a log, and a later text frame
\* was answered without the log changing.
C24_Witness ==
    \E c \in Conns :
        /\ redis_client /\ ~connected
        /\ Len(kinds[c]) = 2
        /\ kinds[c][2] = "text"
        /\ FramesFor(c, 2, "text") # {}
        /\ Len(store[sid[c]]) = 2

IsPrefix(a, b) == Len(a) <= Len(b) /\ SubSeq(b, 1, Len(a)) = a

\* What a read of session s returns from list contents st when the store
\* is reachable.
ReadOf(st, s) ==
    fetch_session_messages([CurR EXCEPT !.connected = TRUE, !.store = st],
                           s, "ok").ret

\* C25: the log is append-only: one save_message leaves the log as read
\* unchanged or adds exactly one entry at its end, and over every step of
\* the handler the log read before is a prefix of the log read after.
C25_AppendOnly ==
    /\ [](\A s \in Sessions : \A o \in SaveOutcomes(CurR) :
            LET sv == save_message(CurR, s, MessageSender.IA,
                                   [content |-> <<"ok">>], o)
                before == ReadOf(store, s)
                after == ReadOf(sv.R.store, s)
            IN /\ \/ after = before
                  \/ /\ Len(after) = Len(before) + 1
                     /\ IsPrefix(before, after)
                     /\ after[Len(after)].content = <<"ok">>
               /\ \A t \in Sessions \ {s} : sv.R.store[t] = store[t])
    /\ [][ \A s \in Sessions :
             IsPrefix(ReadOf(store, s), ReadOf(store', s)) ]_vars

\* A log of two different entries grew by a third.
C25_Witness ==
    \E s \in Sessions :
        /\ Len(store[s]) = 3
        /\ ReadOf(store, s)[1].role = "user"
        /\ ReadOf(store, s)[2].role = "ai"
        /\ ReadOf(store, s)[3].role = "user"


\* The model turn of the last received frame of connection c, if any.
LastTurns(c) ==
    { j \in DOMAIN turns[c] : turns[c][j].frame_no = Len(kinds[c]) }

\* C26: when predict returns None for a frame, the client gets one "text"
\* frame with content "AI error" and success false, and the session is
\* Active afterwards.
C26_NoResultAnswered ==
    \A c \in Conns : \A j \in LastTurns(c) :
        (turns[c][j].none /\ Settled(c) /\ closeReason[c] # "disconnect")
        => LET k == Len(kinds[c]) IN
           /\ pc[c] = "recv"
           /\ Cardinality(FramesFor(c, k, "text")) = 1
           /\ \A i \in FramesFor(c, k, "text") :
                 /\ outbox[c][i].content = <<"AI error">>
                 /\ outbox[c][i].success = "false"

CountRole(log, role) == Cardinality({ i \in DOMAIN log : log[i].role = role })

\* C27: when predict returns a result with success false, the step that
\* made the call appends exactly one reply entry if the store works, the
\* frame is answered by exactly one "text" frame with success false, and
\* the handler stays in its loop.
C27_FailedPredictionAnswered ==
    /\ [](\A c \in Conns : \A j \in LastTurns(c) :
            (~turns[c][j].none /\ ~turns[c][j].success
                /\ closeReason[c] # "disconnect")
            => LET k == Len(kinds[c]) IN
               /\ pc[c] \in {"send_response", "recv", "running"}
               /\ closeReason[c] = "none"
               /\ pc[c] = "send_response"
                    => /\ local[c].frame.type = "text"
                       /\ local[c].frame.success = "false"
                       /\ FramesFor(c, k, "text") = {}
               /\ pc[c] # "send_response"
                    => /\ Cardinality(FramesFor(c, k, "text")) = 1
                       /\ \A i \in FramesFor(c, k, "text") :
                             outbox[c][i].success = "false")
    /\ [][ \A c \in Conns :
             (Len(turns'[c]) = Len(turns[c]) + 1
                 /\ ~turns'[c][Len(turns'[c])].none
                 /\ ~turns'[c][Len(turns'[c])].success
                 /\ redis_client /\ ~storeFailed')
             => CountRole(appended'[sid[c]], MessageSender.IA)
                  = CountRole(appended[sid[c]], MessageSender.IA) + 1 ]_vars

\* A failed prediction was answered and stored, and the handler went on to
\* receive the next frame.
C27_Witness ==
    \E c \in Conns :
        /\ Len(kinds[c]) = 2
        /\ Len(turns[c]) >= 1
        /\ ~turns[c][1].none /\ ~turns[c][1].success
        /\ redis_client /\ ~storeFailed
        /\ CountRole(appended[sid[c]], MessageSender.IA) >= 1
        /\ \E i \in FramesFor(c, 1, "text") : outbox[c][i].success = "false"


\* What the server would do during a call, whatever the client believes.
ServerBehaviours == {"ok", "ping_fail", "lpush_fail", "expire_fail",
                     "lrange_fail", "down"}

\* C28: connected never goes from false back to true; once it is false (a
\* ping failed, or close was called) every save_message returns False
\* without writing and every fetch_session_messages returns the empty list,
\* also when the server would answer again.
C28_NeverReconnects ==
    /\ [](\A R \in {CurR, close(CurR)} :
            ~R.connected
            => \A s \in Sessions : \A o \in ServerBehaviours :
                 LET sv == save_message(R, s, MessageSender.USER,
                                        [str |-> <<"hi">>], o)
                     ft == fetch_session_messages(R, s, o)
                 IN /\ sv.ret = FALSE
                    /\ sv.R.store = R.store
                    /\ ~sv.R.connected
                    /\ ft.ret = <<>>
                    /\ ~ft.R.connected)
    /\ [][ ~connected => ~connected' ]_vars

\* A ping failed while a frame was handled; a later text frame was handled
\* with the client still disconnected and the log unchanged.
C28_Witness ==
    \E c \in Conns :
        /\ redis_client /\ ~connected /\ storeFailed
        /\ Len(kinds[c]) = 2
        /\ kinds[c][2] = "text"
        /\ pc[c] = "recv"
        /\ Len(store[sid[c]]) = 1


\* The positions of entry e in sequence q.
PositionsOf(q, e) == { j \in DOMAIN q : q[j] = e }

\* C29: with two connections (possibly on one session id) and upload
\* requests interleaved, the log of every session holds each successfully
\* appended entry exactly once and in the order of the appends; the step
\* that handles a text frame adds its user entry and its reply entry, in
\* that order, after everything appended before, and an upload request
\* changes no log.
C29_NoLostAppend ==
    /\ [](\A s \in Sessions :
            LET rd == ReadOf(store, s)
                ap == appended[s]
            IN /\ \A i \in DOMAIN ap : Cardinality(PositionsOf(rd, ap[i])) = 1
               /\ \A i, j \in DOMAIN ap :
                    i < j => \A x \in PositionsOf(rd, ap[i]) :
                                \A y \in PositionsOf(rd, ap[j]) : x < y
               /\ ~storeFailed => rd = ap)
    /\ [][ /\ \A c \in Conns :
               (Len(kinds'[c]) = Len(kinds[c]) + 1 /\ ~storeFailed')
               => LET ap == appended[sid[c]]
                      ap2 == appended'[sid[c]]
                  IN /\ Len(ap2) = Len(ap) + 2
                     /\ IsPrefix(ap, ap2)
                     /\ ap2[Len(ap) + 1].role = MessageSender.USER
                     /\ ap2[Len(ap) + 2].role = MessageSender.IA
           /\ upload' # upload => (store' = store /\ appended' = appended)
         ]_vars

\* Both connections are on session s1, each had a text frame answered, an
\* upload for s1 was requested, and the log holds the four entries.
C29_Witness ==
    /\ sid["c1"] = "s1" /\ sid["c2"] = "s1"
    /\ \A c \in Conns : Len(kinds[c]) = 1 /\ pc[c] = "recv"
    /\ upload.requested /\ upload.session_id = "s1"
    /\ ~storeFailed
    /\ Len(ReadOf(store, "s1")) = 4

\* C30: an upload request whose content does not decode is answered with
\* status 400 and performs no blob upload.
C30_InvalidBase64Is400 ==
    (upload.requested /\ ~upload.decoded)
    => (upload.status = 400 /\ upload.blob_uploads = 0)

====
